---- MODULE Spec2Model ----
(***************************************************************************)
(* Model of the multi-signature signing pipeline of keboola/esignature     *)
(* (src/signer.py, sign_pdf_multiple and the stages it calls).             *)
(*                                                                         *)
(* A PDF byte buffer is modelled by what the stages do to it:              *)
(*   pages   the page tree, in page-index order (index 0 = element 1);     *)
(*   fields  the signature fields of the AcroForm, in creation order;      *)
(*   bytes   the file as a sequence of written segments: a full save       *)
(*           (fitz doc.save without incremental) writes the whole file     *)
(*           anew as one segment, an incremental update (pyhanko           *)
(*           IncrementalPdfFileWriter) appends one segment to the old      *)
(*           bytes;                                                        *)
(*   encrypted / readable  whether the file is encrypted / can be opened.  *)
(* A signature stores the bytes its digest was computed over; it verifies  *)
(* on a document exactly when those bytes are still a prefix of the file.  *)
(***************************************************************************)
EXTENDS Integers, Sequences, FiniteSets, TLC

\* ---------------------------------------------------------------- bounds
MaxPages == 2
MaxPlacements == 2
MaxNameLen == 6

\* ------------------------------------------------------------- constants
SIGNATURE_WIDTH == 150
SIGNATURE_HEIGHT == 50
INITIALS_WIDTH == 50
INITIALS_HEIGHT == 35

VARIABLES
    pdf_bytes,           \* argument: the base document
    p12_bytes,           \* argument: the PKCS#12 archive with its passphrase
    signatures,          \* argument: the placement list
    lock_after_signing,  \* argument
    add_protocol_page,   \* argument
    signer,              \* local: <<>> until loaded, then <<identity>>
    current_pdf,         \* local: <<>> until assigned, then <<document>>
    i,                   \* local: loop index of `for i, sig in enumerate`
    pc,                  \* position of the invocation
    result,              \* <<>> unless bytes were returned, then <<document>>
    log,                 \* history: the stage calls made so far, in order
    img_with_boxes,      \* app.py: <<>> or <<the boxes previewed per page>>
    st_signer_name,      \* app.py: session_state.signer_name, <<>> for None
    cert_message,        \* app.py: <<>> or <<what the sidebar shows>>
    other,               \* <<>>, or <<the arguments and locals of a second
                         \* invocation that is not running at the moment>>
    pdf_file,            \* app.py: <<>> or <<the document in the uploader>>
    session_state        \* app.py: <<>> or <<st.session_state of a session>>

vars == <<pdf_bytes, p12_bytes, signatures, lock_after_signing,
          add_protocol_page, signer, current_pdf, i, pc, result, log,
          img_with_boxes, st_signer_name, cert_message, other, pdf_file,
          session_state>>

\* the state outside the invocation of sign_pdf_multiple
aux == <<img_with_boxes, st_signer_name, cert_message, other, pdf_file,
         session_state>>

args == <<pdf_bytes, p12_bytes, signatures, lock_after_signing,
          add_protocol_page>>

\* --------------------------------------------------------------- helpers
SeqsUpTo(S, n) == UNION {[1..k -> S] : k \in 0..n}

IsPrefix(s, t) == Len(s) <= Len(t) /\ SubSeq(t, 1, Len(s)) = s

\* f"Signature_{i + 1}" for the 0-based loop index idx
FieldNameSame(idx) == <<"Signature_", 1>>

FieldName(idx) == <<"Signature_", idx + 1>>

\* ---------------------------------------------------------------- strings
\* A string is the sequence of its characters.
LowerChars == <<"a", "b", "c", "d", "e", "f", "g", "h", "i", "j", "k", "l", "m", "n", "o", "p", "q", "r", "s", "t", "u", "v", "w", "x", "y", "z">>

UpperChars == <<"A", "B", "C", "D", "E", "F", "G", "H", "I", "J", "K", "L", "M", "N", "O", "P", "Q", "R", "S", "T", "U", "V", "W", "X", "Y", "Z">>

IsLowerChar(ch) == \E k \in 1..Len(LowerChars) : LowerChars[k] = ch

IsUpperChar(ch) == \E k \in 1..Len(UpperChars) : UpperChars[k] = ch

\* str.isalpha, str.lower and str.upper on one character
IsAlpha(ch) == IsLowerChar(ch) \/ IsUpperChar(ch)

Lower(ch) ==
    IF IsUpperChar(ch)
    THEN LowerChars[CHOOSE k \in 1..Len(UpperChars) : UpperChars[k] = ch]
    ELSE ch

UpperSame(ch) == ch

Upper(ch) ==
    IF IsLowerChar(ch)
    THEN UpperChars[CHOOSE k \in 1..Len(LowerChars) : LowerChars[k] = ch]
    ELSE ch

StrLower(str) == [k \in 1..Len(str) |-> Lower(str[k])]

IsSpace(ch) == ch = " "

\* whether sub occurs in str
Contains(str, sub) ==
    \E a \in 1..(Len(str) - Len(sub) + 1) :
        SubSeq(str, a, a + Len(sub) - 1) = sub

\* str.replace(sub, ''): the occurrences found scanning left to right, the
\* scan going on behind each one
RECURSIVE Remove(_, _)
Remove(str, sub) ==
    IF Len(str) < Len(sub) THEN str
    ELSE IF SubSeq(str, 1, Len(sub)) = sub
         THEN Remove(SubSeq(str, Len(sub) + 1, Len(str)), sub)
         ELSE <<str[1]>> \o Remove(Tail(str), sub)

\* str.split(): the maximal runs of non-whitespace characters
RECURSIVE Split(_, _)
Split(str, word) ==
    LET done == IF word = <<>> THEN <<>> ELSE <<word>>
    IN  IF str = <<>> THEN done
        ELSE IF IsSpace(str[1]) THEN done \o Split(Tail(str), <<>>)
        ELSE Split(Tail(str), Append(word, str[1]))

\* lines 127-128
titles ==
    <<<<"i", "n", "g", ".">>,
      <<"m", "g", "r", ".">>,
      <<"b", "c", ".">>,
      <<"m", "u", "d", "r", ".">>,
      <<"j", "u", "d", "r", ".">>,
      <<"p", "h", "d", "r", ".">>,
      <<"r", "n", "d", "r", ".">>,
      <<"d", "o", "c", ".">>,
      <<"p", "r", "o", "f", ".">>,
      <<"p", "h", ".", "d", ".">>,
      <<"c", "s", "c", ".">>,
      <<"d", "r", "s", "c", ".">>,
      <<"m", "b", "a">>,
      <<"d", "i", "s", ".">>>>

\* lines 130-132: the titles are removed one after the other, in list order
RECURSIVE RemoveTitles(_, _)
RemoveTitles(name_lower, k) ==
    IF k > Len(titles) THEN name_lower
    ELSE RemoveTitles(Remove(name_lower, titles[k]), k + 1)

RECURSIVE FirstLetters(_)
FirstLetters(words) ==
    IF words = <<>> THEN <<>>
    ELSE (IF IsAlpha(words[1][1]) THEN <<Upper(words[1][1])>> ELSE <<>>)
            \o FirstLetters(Tail(words))

get_initials_no_fallback(name) ==
    FirstLetters(Split(RemoveTitles(StrLower(name), 1), <<>>))

get_initials(name) ==
    LET name_lower == RemoveTitles(StrLower(name), 1)
        words == Split(name_lower, <<>>)
        initials == FirstLetters(words)
    IN  IF initials # <<>> THEN initials ELSE <<"?">>

Unknown == <<"U", "n", "k", "n", "o", "w", "n">>

\* a page of the base document
\* (odd pages are A4, even pages US Letter; heights in PDF points)
OrigPage(k) ==
    [kind |-> "orig", id |-> k, marks |-> <<>>, text |-> <<>>,
     height |-> IF k % 2 = 1 THEN 842 ELSE 792]

\* the placements the caller can pass: page index, kind, position and the
\* optional size overrides (<<>> when the key is absent). These are the ones
\* app.py builds: position (400, 50), no override.
Placements ==
    [page : 0..MaxPages, type : {"full", "initials"}, x : {400}, y : {50},
     width : {<<>>}, height : {<<>>}]

\* placements with and without size overrides
SizedPlacements ==
    [page : 0..1, type : {"full", "initials"}, x : {400}, y : {50},
     width : {<<>>, <<100>>}, height : {<<>>, <<80>>}]

\* the one-element list the legacy sign_pdf passes on
sign_pdf_signatures(page_number, x, y, width, height) ==
    <<[page |-> page_number, x |-> x, y |-> y, width |-> <<width>>,
       height |-> <<height>>, type |-> "full"]>>

\* sig.get(key, default)
Get(opt, default) == IF opt = <<>> THEN default ELSE opt[1]

\* lines 522-528
ResolveWidthDefault(sig) ==
    IF sig.type = "initials" THEN INITIALS_WIDTH ELSE SIGNATURE_WIDTH

ResolveWidth(sig) ==
    IF sig.type = "initials" THEN Get(sig.width, INITIALS_WIDTH)
    ELSE Get(sig.width, SIGNATURE_WIDTH)

ResolveHeight(sig) ==
    IF sig.type = "initials" THEN Get(sig.height, INITIALS_HEIGHT)
    ELSE Get(sig.height, SIGNATURE_HEIGHT)

\* signature fields the base document may already carry: none, or one
\* signed field, left by another tool or by an earlier signing with this one
SignedField(name) ==
    [name |-> name, page |-> 0, box |-> <<0, 0, 0, 0>>, filled |-> TRUE,
     signed_bytes |-> << <<"input", 0>> >>, run |-> FALSE]

ExistingFields ==
    { <<>>, <<SignedField(<<"Approval_", 1>>)>>, <<SignedField(FieldName(1))>> }

InputDocs ==
    { [pages |-> [k \in 1..n |-> OrigPage(k)], fields |-> ef,
       bytes |-> << <<"input", 0>> >>, encrypted |-> FALSE, readable |-> r] :
        n \in 1..MaxPages, ef \in ExistingFields, r \in BOOLEAN }

\* the subject common name of a certificate: <<>> when the field is absent
CommonNames == {<<>>, <<<<"B", "c", ".", " ", "a", "m", " ", "B", "a">>>>}

\* a PKCS#12 archive together with the passphrase given for it
InputP12 == [decrypts : BOOLEAN, can_sign : BOOLEAN, cn : CommonNames]

\* ----------------------------------------------------------------- stages
\* Every stage returns [ok |-> TRUE, val |-> <<value>>] or, when it raises,
\* [ok |-> FALSE, val |-> <<>>].
Raised == [ok |-> FALSE, val |-> <<>>]
Returned(v) == [ok |-> TRUE, val |-> <<v>>]

load_signer_from_p12_any(p12) ==
    Returned([can_sign |-> p12.can_sign, cn |-> p12.cn])

load_signer_from_p12(p12) ==
    IF p12.decrypts THEN Returned([can_sign |-> p12.can_sign, cn |-> p12.cn])
    ELSE Raised

\* lines 44-54: `if cn: return cn`, else "Unknown"
get_signer_name_from_signer(sgn) ==
    IF sgn.cn # <<>> /\ sgn.cn[1] # <<>> THEN sgn.cn[1] ELSE Unknown

\* lines 108-114: any exception of the load gives "Unknown" as well
get_signer_name(p12) ==
    LET r == load_signer_from_p12(p12)
    IN  IF r.ok THEN get_signer_name_from_signer(r.val[1]) ELSE Unknown

\* doc.save(output): the whole file is written anew
FullSaveSameBytes(doc, token) == doc

FullSave(doc, token) == [doc EXCEPT !.bytes = <<token>>]

\* doc.new_page(...) of create_protocol_page: where the new page goes
NewPageFront(pages, page) == <<page>> \o pages

NewPage(pages, page) == Append(pages, page)

\* sorted(set(...)): ascending, without duplicates
RECURSIVE SortedSeq(_)
SortedSeq(S) ==
    IF S = {} THEN <<>>
    ELSE LET least == CHOOSE a \in S : \A b \in S : a <= b
         IN  <<least>> \o SortedSeq(S \ {least})

\* lines 401-408: one numbered line <<number, page number>> per entry of
\* full_sigs
SignatureLinesUnfiltered(signatures_info) ==
    [k \in 1..Len(signatures_info) |-> <<k, signatures_info[k].page + 1>>]

SignatureLines(signatures_info) ==
    LET full_sigs == SelectSeq(signatures_info,
                               LAMBDA s : s.type # "initials")
    IN  [k \in 1..Len(full_sigs) |-> <<k, full_sigs[k].page + 1>>]

\* lines 402, 410-415: <<>> without initials, else <<the page numbers>>
InitialsLine(signatures_info) ==
    LET initials_sigs == SelectSeq(signatures_info,
                                   LAMBDA s : s.type = "initials")
        pages_with_initials ==
            SortedSeq({initials_sigs[k].page + 1 : k \in 1..Len(initials_sigs)})
    IN  IF Len(initials_sigs) > 0 THEN <<pages_with_initials>> ELSE <<>>

create_protocol_page(doc, signatures_info) ==
    IF ~doc.readable THEN Raised
    ELSE LET blank == [kind |-> "protocol", id |-> 0, marks |-> <<>>,
                       text |-> <<>>, height |-> 842]
             grown == NewPage(doc.pages, blank)
             original_page_count == Len(grown) - 1
             content == [number_of_pages |-> original_page_count,
                         signatures_info |-> signatures_info,
                         signature_lines |-> SignatureLines(signatures_info),
                         initials_line |-> InitialsLine(signatures_info)]
             written == [k \in 1..Len(grown) |->
                            IF grown[k].kind = "protocol"
                            THEN [grown[k] EXCEPT !.text = <<content>>]
                            ELSE grown[k]]
         IN  Returned(FullSave([doc EXCEPT !.pages = written],
                               <<"protocol", 0>>))

\* doc[page_num]: a page index below the page count of the opened document
PageExists(doc, page_num) == page_num >= 0 /\ page_num < Len(doc.pages)

render_signature_appearance(doc, page_num, x, y, width, height, signer_name, signature_type, idx) ==
    IF ~doc.readable \/ ~PageExists(doc, page_num) THEN Raised
    ELSE LET page_height == doc.pages[page_num + 1].height
             rect_top == page_height - y - height
             rect == <<x, rect_top, x + width, rect_top + height>>
             mark == [type |-> signature_type, placement |-> idx,
                      rect |-> rect, name |-> signer_name]
             drawn == [doc.pages EXCEPT ![page_num + 1].marks =
                                            Append(@, mark)]
         IN  Returned(FullSave([doc EXCEPT !.pages = drawn],
                               <<"render", idx>>))

\* pdf_signer.sign_pdf(IncrementalPdfFileWriter(...)): one appended revision
\* holding the new field and its signature over the file up to that point
sign_step(doc, sgn, field_name, box, on_page, idx) ==
    IF \/ ~sgn.can_sign
       \/ \E k \in 1..Len(doc.fields) : doc.fields[k].name = field_name
    THEN Raised
    ELSE LET appended == Append(doc.bytes, <<"sign", idx>>)
             field == [name |-> field_name, page |-> on_page, box |-> box,
                       filled |-> TRUE, signed_bytes |-> appended,
                       run |-> TRUE]
         IN  Returned([doc EXCEPT !.fields = Append(@, field),
                                  !.bytes = appended])

lock_pdf_for_editing(doc) ==
    IF ~doc.readable THEN Raised
    ELSE Returned(FullSave([doc EXCEPT !.encrypted = TRUE], <<"lock", 0>>))

\* a signature verifies on doc iff the bytes it covers are still in place
Verifies(field, doc) == field.filled /\ IsPrefix(field.signed_bytes, doc.bytes)

\* ------------------------------------------------------------ the pipeline
Entry(stage, idx, in, r, arg) ==
    [stage |-> stage, idx |-> idx, in |-> in, out |-> r.val, ok |-> r.ok,
     arg |-> arg]

\* `if not signatures`
NoPlacementsNever(sigs) == FALSE

NoPlacements(sigs) == Len(sigs) = 0

\* `if add_protocol_page`
ProtocolRequestedAlways == TRUE

ProtocolRequested == add_protocol_page

\* what the caller gets out of an invocation that raises
RaisedResultPartial(cur) == cur

RaisedResult(cur) == <<>>

\* `if lock_after_signing`
LockRequestedAlways == TRUE

LockRequested == lock_after_signing

\* `except Exception as e: raise ValueError(...)`: where an invocation goes
\* when the stage at position `at` raises
ExceptionExitRetry(at) == at

ExceptionExit(at) == "Failed"

\* the buffer handed to render_signature_appearance
RenderInputShared ==
    IF other # <<>> /\ other[1].current_pdf # <<>>
    THEN other[1].current_pdf[1] ELSE current_pdf[1]

RenderInputBase == pdf_bytes

RenderInput == current_pdf[1]

\* the next index of the for loop
NextIndexSkip(idx) == idx + 2

NextIndex(idx) == idx + 1

Init ==
    /\ pdf_bytes \in InputDocs
    /\ p12_bytes \in InputP12
    /\ signatures \in SeqsUpTo(Placements, MaxPlacements)
    /\ lock_after_signing \in BOOLEAN
    /\ add_protocol_page \in BOOLEAN
    /\ signer = <<>>
    /\ current_pdf = <<>>
    /\ i = 0
    /\ pc = "Entry"
    /\ result = <<>>
    /\ log = <<>>
    /\ img_with_boxes = <<>>
    /\ st_signer_name = <<>>
    /\ cert_message = <<>>
    /\ other = <<>>
    /\ pdf_file = <<>>
    /\ session_state = <<>>

\* lines 493-494
CheckPlacements ==
    /\ pc = "Entry"
    /\ IF NoPlacements(signatures)
       THEN /\ pc' = "Failed"
            /\ result' = RaisedResult(current_pdf)
       ELSE /\ pc' = "LoadingIdentity"
            /\ result' = result
    /\ UNCHANGED <<aux, args, signer, current_pdf, i, log>>

\* lines 496-503 (and 581-582 when the load raises)
LoadIdentity ==
    /\ pc = "LoadingIdentity"
    /\ LET r == load_signer_from_p12(p12_bytes)
       IN  /\ log' = Append(log, Entry("load", 0, <<>>, r, <<>>))
           /\ IF r.ok
              THEN /\ signer' = r.val
                   /\ current_pdf' = <<pdf_bytes>>
                   /\ pc' = IF ProtocolRequested THEN "ProtocolInjection"
                            ELSE "Render"
                   /\ result' = result
              ELSE /\ pc' = ExceptionExit("LoadingIdentity")
                   /\ result' = RaisedResult(current_pdf)
                   /\ UNCHANGED <<signer, current_pdf>>
    /\ UNCHANGED <<aux, args, i>>

\* lines 504-510
ProtocolInjection ==
    /\ pc = "ProtocolInjection"
    /\ LET r == create_protocol_page(current_pdf[1], signatures)
       IN  /\ log' = Append(log, Entry("protocol", 0, current_pdf, r,
                                       signatures))
           /\ IF r.ok
              THEN /\ current_pdf' = r.val
                   /\ pc' = "Render"
                   /\ result' = result
              ELSE /\ pc' = ExceptionExit("ProtocolInjection")
                   /\ result' = RaisedResult(current_pdf)
                   /\ current_pdf' = current_pdf
    /\ UNCHANGED <<aux, args, signer, i>>

\* lines 516-540: one pass of the loop up to the rendered mark
Render ==
    /\ pc = "Render"
    /\ LET sig == signatures[i + 1]
           width == ResolveWidth(sig)
           height == ResolveHeight(sig)
           r == render_signature_appearance(RenderInput, sig.page, sig.x,
                                            sig.y, width, height,
                                            get_signer_name_from_signer(signer[1]),
                                            sig.type, i)
       IN  /\ log' = Append(log, Entry("render", i, <<RenderInput>>, r,
                                       <<sig.page, sig.type, sig.x, sig.y,
                                         width, height>>))
           /\ IF r.ok
              THEN /\ current_pdf' = r.val
                   /\ pc' = "Sign"
                   /\ result' = result
              ELSE /\ pc' = ExceptionExit("Render")
                   /\ result' = RaisedResult(current_pdf)
                   /\ current_pdf' = current_pdf
    /\ UNCHANGED <<aux, args, signer, i>>

\* lines 542-573: the rest of the pass, then the loop's next index
Sign ==
    /\ pc = "Sign"
    /\ LET sig == signatures[i + 1]
           width == ResolveWidth(sig)
           height == ResolveHeight(sig)
           field_name == FieldName(i)
           box == <<sig.x, sig.y, sig.x + width, sig.y + height>>
           r == sign_step(current_pdf[1], signer[1], field_name, box,
                          sig.page, i)
       IN  /\ log' = Append(log, Entry("sign", i, current_pdf, r,
                                       <<field_name, sig.page, box>>))
           /\ IF r.ok
              THEN /\ current_pdf' = r.val
                   /\ i' = NextIndex(i)
                   /\ pc' = IF NextIndex(i) < Len(signatures) THEN "Render"
                            ELSE IF LockRequested THEN "Locking"
                            ELSE "Return"
                   /\ result' = result
              ELSE /\ pc' = ExceptionExit("Sign")
                   /\ result' = RaisedResult(current_pdf)
                   /\ UNCHANGED <<current_pdf, i>>
    /\ UNCHANGED <<aux, args, signer>>

\* lines 576-577; the save may raise
Locking ==
    /\ pc = "Locking"
    /\ \E save_ok \in BOOLEAN :
         LET r == IF save_ok THEN lock_pdf_for_editing(current_pdf[1])
                  ELSE Raised
         IN  /\ log' = Append(log, Entry("lock", 0, current_pdf, r, <<>>))
             /\ IF r.ok
                THEN /\ current_pdf' = r.val
                     /\ pc' = "Return"
                     /\ result' = result
                ELSE /\ pc' = ExceptionExit("Locking")
                     /\ result' = RaisedResult(current_pdf)
                     /\ current_pdf' = current_pdf
    /\ UNCHANGED <<aux, args, signer, i>>

\* line 579
Return ==
    /\ pc = "Return"
    /\ result' = current_pdf
    /\ pc' = "Done"
    /\ UNCHANGED <<aux, args, signer, current_pdf, i, log>>

Next ==
    \/ CheckPlacements
    \/ LoadIdentity
    \/ ProtocolInjection
    \/ Render
    \/ Sign
    \/ Locking
    \/ Return

Spec == Init /\ [][Next]_vars

\* ---------------------------------------------------- preview and layout
\* app.py draw_signature_boxes, in PDF points (the pixel values drawn are
\* these scaled by image size / page size): one box per placement of the
\* list that is on page_num, sized by kind
draw_signature_boxes(sigs, page_num, page_height_pts) ==
    LET numbered == [k \in 1..Len(sigs) |-> [i |-> k - 1, sig |-> sigs[k]]]
        on_page == SelectSeq(numbered, LAMBDA e : e.sig.page = page_num)
        Box(e) ==
            LET sig_width == IF e.sig.type = "initials" THEN INITIALS_WIDTH
                             ELSE SIGNATURE_WIDTH
                sig_height == IF e.sig.type = "initials" THEN INITIALS_HEIGHT
                              ELSE SIGNATURE_HEIGHT
            IN  [placement |-> e.i, x |-> e.sig.x,
                 top |-> page_height_pts - e.sig.y - sig_height,
                 width |-> sig_width, height |-> sig_height]
    IN  [k \in 1..Len(on_page) |-> Box(on_page[k])]

\* app.py lines 375-412: the placements are previewed on every page before
\* the document is signed
Preview ==
    /\ pc = "Preview"
    /\ img_with_boxes' =
          <<[p \in 1..Len(pdf_bytes.pages) |->
                draw_signature_boxes(signatures, p - 1,
                                     pdf_bytes.pages[p].height)]>>
    /\ pc' = "Entry"
    /\ UNCHANGED <<args, signer, current_pdf, i, result, log, st_signer_name,
                   cert_message, other, pdf_file, session_state>>

\* placement lists with size overrides, and the call made by sign_pdf with
\* its default width and height
LayoutInit ==
    /\ pdf_bytes \in {d \in InputDocs : d.readable /\ d.fields = <<>>}
    /\ p12_bytes = [decrypts |-> TRUE, can_sign |-> TRUE, cn |-> <<>>]
    /\ \/ /\ signatures \in SeqsUpTo(SizedPlacements, MaxPlacements)
          /\ lock_after_signing \in BOOLEAN
          /\ add_protocol_page \in BOOLEAN
       \/ /\ signatures = sign_pdf_signatures(0, 400, 50, 150, 50)
          /\ lock_after_signing = FALSE
          /\ add_protocol_page = FALSE
    /\ signer = <<>>
    /\ current_pdf = <<>>
    /\ i = 0
    /\ pc = "Preview"
    /\ result = <<>>
    /\ log = <<>>
    /\ img_with_boxes = <<>>
    /\ st_signer_name = <<>>
    /\ cert_message = <<>>
    /\ other = <<>>
    /\ pdf_file = <<>>
    /\ session_state = <<>>

LayoutNext ==
    \/ Preview
    \/ Next

SpecLayout == LayoutInit /\ [][LayoutNext]_vars

\* ------------------------------------------------- concurrent invocations
\* the arguments and locals of the invocation that is running
Running ==
    [pdf_bytes |-> pdf_bytes, p12_bytes |-> p12_bytes,
     signatures |-> signatures, lock_after_signing |-> lock_after_signing,
     add_protocol_page |-> add_protocol_page, signer |-> signer,
     current_pdf |-> current_pdf, i |-> i, pc |-> pc, result |-> result,
     log |-> log]

\* an invocation that has not started
Start(pdf, p12, sigs, lock, protocol) ==
    [pdf_bytes |-> pdf, p12_bytes |-> p12, signatures |-> sigs,
     lock_after_signing |-> lock, add_protocol_page |-> protocol,
     signer |-> <<>>, current_pdf |-> <<>>, i |-> 0, pc |-> "Entry",
     result |-> <<>>, log |-> <<>>]

\* The interpreter hands the processor from one invocation to the other
\* between two stages: each invocation keeps its own arguments and locals
\* (the parameters and local variables of sign_pdf_multiple).
Switch ==
    /\ other # <<>>
    /\ other' = <<Running>>
    /\ pdf_bytes' = other[1].pdf_bytes
    /\ p12_bytes' = other[1].p12_bytes
    /\ signatures' = other[1].signatures
    /\ lock_after_signing' = other[1].lock_after_signing
    /\ add_protocol_page' = other[1].add_protocol_page
    /\ signer' = other[1].signer
    /\ current_pdf' = other[1].current_pdf
    /\ i' = other[1].i
    /\ pc' = other[1].pc
    /\ result' = other[1].result
    /\ log' = other[1].log
    /\ UNCHANGED <<img_with_boxes, st_signer_name, cert_message, pdf_file,
                   session_state>>

\* the placements of the concurrent invocations
ConcPlacements ==
    [page : {0}, type : {"full", "initials"}, x : {400}, y : {50},
     width : {<<>>}, height : {<<>>}]

ConcDoc(n) ==
    [pages |-> [k \in 1..n |-> OrigPage(k)], fields |-> <<>>,
     bytes |-> << <<"input", 0>> >>, encrypted |-> FALSE, readable |-> TRUE]

ConcInit ==
    /\ pdf_bytes = ConcDoc(1)
    /\ p12_bytes = [decrypts |-> TRUE, can_sign |-> TRUE, cn |-> <<>>]
    /\ signatures \in SeqsUpTo(ConcPlacements, MaxPlacements)
    /\ lock_after_signing \in BOOLEAN
    /\ add_protocol_page = FALSE
    /\ signer = <<>>
    /\ current_pdf = <<>>
    /\ i = 0
    /\ pc = "Entry"
    /\ result = <<>>
    /\ log = <<>>
    /\ img_with_boxes = <<>>
    /\ st_signer_name = <<>>
    /\ cert_message = <<>>
    /\ other \in {<<Start(ConcDoc(2),
                          [decrypts |-> d, can_sign |-> TRUE,
                           cn |-> <<<<"a", " ", "B">>>>],
                          sigs, FALSE, protocol)>> :
                     d \in BOOLEAN, protocol \in BOOLEAN,
                     sigs \in SeqsUpTo(ConcPlacements, MaxPlacements)}
    /\ pdf_file = <<>>
    /\ session_state = <<>>

ConcNext ==
    \/ Next
    \/ Switch

SpecConcurrent == ConcInit /\ [][ConcNext]_vars

\* ------------------------------------------------- certificate info (UI)
\* the characters the common names are made of
NameChars == {"a", "B", "m", ".", " "}

Names == SeqsUpTo(NameChars, MaxNameLen)

\* app.py lines 207-216: the sidebar shows the signer name and the initials
CertificateInfo ==
    /\ pc = "Sidebar"
    /\ LET r == Returned(get_signer_name(p12_bytes))
       IN  IF r.ok
           THEN /\ st_signer_name' = r.val
                /\ cert_message' =
                      <<[kind |-> "success", name |-> r.val[1],
                         initials |-> get_initials(r.val[1])]>>
           ELSE /\ st_signer_name' = <<>>
                /\ cert_message' = <<[kind |-> "error", name |-> <<>>,
                                      initials |-> <<>>]>>
    /\ pc' = "Shown"
    /\ UNCHANGED <<args, signer, current_pdf, i, result, log, img_with_boxes,
                   other, pdf_file, session_state>>

CertInit ==
    /\ pdf_bytes \in {d \in InputDocs : d.readable /\ d.fields = <<>>
                                        /\ Len(d.pages) = 1}
    /\ p12_bytes \in [decrypts : BOOLEAN, can_sign : {TRUE},
                      cn : {<<>>} \cup {<<n>> : n \in Names}]
    /\ signatures = <<>>
    /\ lock_after_signing = FALSE
    /\ add_protocol_page = FALSE
    /\ signer = <<>>
    /\ current_pdf = <<>>
    /\ i = 0
    /\ pc = "Sidebar"
    /\ result = <<>>
    /\ log = <<>>
    /\ img_with_boxes = <<>>
    /\ st_signer_name = <<>>
    /\ cert_message = <<>>
    /\ other = <<>>
    /\ pdf_file = <<>>
    /\ session_state = <<>>

CertNext == CertificateInfo

SpecCert == CertInit /\ [][CertNext]_vars

\* ------------------------------------------------------------ properties
N == Len(signatures)

original_count == Len(pdf_bytes.pages)

Calls(stage) == {k \in 1..Len(log) : log[k].stage = stage}

Completed(stage) == {k \in Calls(stage) : log[k].ok}

\* the kind and identity of every page, in page-index order
PageIds(doc) == [k \in 1..Len(doc.pages) |-> <<doc.pages[k].kind, doc.pages[k].id>>]

\* C1: in sign_pdf_multiple the mark of placement i is rendered right before
\* placement i is signed, signing works on exactly the rendered bytes, and the
\* bytes signing produced for placement i are exactly the bytes given to the
\* rendering of placement i+1, which is the next stage call after it.
C1_RenderThenSignChained ==
    /\ \A k \in Calls("sign") :
          /\ k > 1
          /\ log[k - 1].stage = "render"
          /\ log[k - 1].idx = log[k].idx
          /\ log[k - 1].ok
          /\ log[k].in = log[k - 1].out
    /\ \A k \in Calls("render") :
          log[k].idx > 0 =>
             /\ log[k - 1].stage = "sign"
             /\ log[k - 1].idx = log[k].idx - 1
             /\ log[k - 1].ok
             /\ log[k].in = log[k - 1].out

C1_Witness ==
    \E k \in Completed("sign") : log[k].idx = 1

\* C2: with N >= 2 placements, once a signature of the run has been applied
\* every later stage only appends to the bytes it covers, so every signature
\* applied so far verifies on the current (and on the returned) document.
C2_PriorSignaturesStayValid ==
    (N >= 2 /\ current_pdf # <<>>) =>
        \A k \in 1..Len(current_pdf[1].fields) :
            current_pdf[1].fields[k].run =>
                Verifies(current_pdf[1].fields[k], current_pdf[1])

\* C3: a successful run signs every placement exactly once, in list order,
\* and the returned document has exactly N signature fields more than the
\* input.
C3_ExactlyNSignatures ==
    pc = "Done" =>
        LET signs == SelectSeq(log, LAMBDA e : e.stage = "sign")
        IN  /\ Len(signs) = N
            /\ \A k \in 1..Len(signs) :
                  /\ signs[k].ok
                  /\ signs[k].idx = k - 1
                  /\ signs[k].arg[2] = signatures[k].page
            /\ Len(result[1].fields) = Len(pdf_bytes.fields) + N

C3_Witness ==
    /\ pc = "Done"
    /\ N = 2
    /\ Len(pdf_bytes.fields) = 1

\* C4: the placement at list index i is signed under the field name
\* Signature_{i+1}, so the field names of one run are pairwise distinct,
\* whatever the placement kinds and with or without a protocol page.
C4_FieldNamesSequential ==
    /\ \A k \in Calls("sign") :
          /\ log[k].arg[1] = <<"Signature_", log[k].idx + 1>>
          /\ log[k].arg[2] = signatures[log[k].idx + 1].page
    /\ \A j, k \in Calls("sign") : j # k => log[j].arg[1] # log[k].arg[1]
    /\ pc = "Done" =>
          \A j \in 1..N :
              LET f == result[1].fields[Len(pdf_bytes.fields) + j]
              IN  f.name = <<"Signature_", j>> /\ f.page = signatures[j].page

C4_Witness ==
    /\ pc = "Done"
    /\ add_protocol_page
    /\ N = 2
    /\ signatures[1].type # signatures[2].type

\* C5: an invocation returns bytes only when every requested stage has
\* completed (protocol page if requested, all N render and sign steps, lock
\* if requested), and otherwise raises without returning anything: the
\* document signed k < N times is never returned.
C5_AllStagesCompleted ==
    /\ add_protocol_page => Cardinality(Completed("protocol")) = 1
    /\ \A j \in 0..(N - 1) :
          /\ \E k \in Completed("render") : log[k].idx = j
          /\ \E k \in Completed("sign") : log[k].idx = j
    /\ lock_after_signing => Cardinality(Completed("lock")) = 1
    /\ result = log[Len(log)].out
    /\ result[1].encrypted = lock_after_signing
    /\ Cardinality({k \in 1..Len(result[1].fields) :
                        result[1].fields[k].run}) = N

C5_AllOrNothing ==
    /\ result # <<>> => (pc = "Done" /\ C5_AllStagesCompleted)
    /\ pc = "Done" => result # <<>>
    /\ pc = "Failed" => result = <<>>

C5_Witness ==
    /\ pc = "Failed"
    /\ Completed("sign") # {}
    /\ Cardinality(Completed("sign")) < N
    /\ result = <<>>

\* C6: with an empty placement list the invocation fails at once: no
\* identity is loaded, no stage is called and no bytes are returned.
C6_EmptyListRejectedFirst ==
    N = 0 =>
        /\ pc \in {"Entry", "Failed"}
        /\ log = <<>>
        /\ signer = <<>>
        /\ current_pdf = <<>>
        /\ result = <<>>

C6_Witness ==
    /\ N = 0
    /\ pc = "Failed"

C8_PagesValidatedAtEntry ==
    (\E k \in 1..N : signatures[k].page \notin 0..(original_count - 1)) =>
        /\ Completed("protocol") = {}
        /\ Completed("render") = {}
        /\ Completed("sign") = {}

\* C9: the protocol page is generated at most once, never when
\* add_protocol_page is false, as the stage call right after the identity
\* load and from the caller's full placement list; with add_protocol_page
\* true it has been generated exactly once whenever a placement is rendered
\* or signed and when the run returns.
C9_ProtocolOnceBeforePlacements ==
    /\ Cardinality(Calls("protocol")) <= 1
    /\ ~add_protocol_page => Calls("protocol") = {}
    /\ \A k \in Calls("protocol") :
          /\ k = 2
          /\ log[1].stage = "load"
          /\ log[1].ok
          /\ log[k].arg = signatures
          /\ log[k].in = <<pdf_bytes>>
    /\ (add_protocol_page /\ (Calls("render") \cup Calls("sign") # {} \/ pc = "Done")) =>
          /\ Completed("protocol") = {2}
          /\ \A k \in Calls("render") \cup Calls("sign") : k > 2

C9_Witness ==
    /\ pc = "Done"
    /\ add_protocol_page
    /\ N = 2

\* C10: the protocol page becomes the last page and leaves every page index
\* 0..original_count-1 on the page it denoted before; rendering, signing and
\* locking keep the pages; the returned document has original_count + 1
\* pages with a protocol page and original_count without, and the protocol
\* page reports original_count pages.
C10_PageIndexStability ==
    /\ \A k \in Completed("protocol") :
          LET in == log[k].in[1]
              out == log[k].out[1]
          IN  /\ Len(out.pages) = Len(in.pages) + 1
              /\ SubSeq(out.pages, 1, Len(in.pages)) = in.pages
              /\ out.pages[Len(out.pages)].kind = "protocol"
              /\ out.pages[Len(out.pages)].text[1].number_of_pages
                    = original_count
    /\ \A k \in Completed("render") \cup Completed("sign") \cup Completed("lock") :
          PageIds(log[k].out[1]) = PageIds(log[k].in[1])
    /\ pc = "Done" =>
          /\ Len(result[1].pages) =
                IF add_protocol_page THEN original_count + 1
                ELSE original_count
          /\ \A p \in 1..original_count :
                PageIds(result[1])[p] = <<"orig", p>>

C10_Witness ==
    /\ pc = "Done"
    /\ add_protocol_page
    /\ lock_after_signing
    /\ original_count = 2

\* C11: lock_pdf_for_editing is called at most once per run, only when
\* lock_after_signing is true and only after all N placements have been
\* rendered and signed, and it is the last stage call of the run.
C11_LockIsTerminal ==
    /\ Cardinality(Calls("lock")) <= 1
    /\ ~lock_after_signing => Calls("lock") = {}
    /\ \A k \in Calls("lock") :
          /\ k = Len(log)
          /\ \A j \in 0..(N - 1) :
                /\ \E r \in Completed("render") : r < k /\ log[r].idx = j
                /\ \E g \in Completed("sign") : g < k /\ log[g].idx = j
    /\ pc \in {"Locking", "Return", "Done"} =>
          Cardinality(Completed("sign")) = N

C11_Witness ==
    /\ Completed("lock") # {}
    /\ N = 2
    /\ pc = "Done"

\* C12: once a stage call of a run has failed, it is the last stage call of
\* that run (no further stage, no retry) and the run has ended by raising,
\* with nothing returned.
C12_FailureIsAbsorbing ==
    /\ \A k \in 1..Len(log) :
          ~log[k].ok => (k = Len(log) /\ pc = "Failed" /\ result = <<>>)
    /\ pc = "Failed" => (N = 0 \/ (log # <<>> /\ ~log[Len(log)].ok))

C12_Witness ==
    /\ pc = "Failed"
    /\ Len(log) >= 4
    /\ ~log[Len(log)].ok

\* C17: the caller's arguments never change during a run, on success or on
\* failure; every document stage leaves the buffer it received as it was and
\* returns a newly written buffer, and that buffer, and no other, is the
\* input of the next stage, the first stage getting the caller's pdf_bytes.
C17_Chain ==
    /\ \A k \in 2..Len(log) :
          /\ log[k].in = (IF k = 2 THEN <<pdf_bytes>> ELSE log[k - 1].out)
          /\ log[k].ok =>
                /\ log[k].out[1].bytes # log[k].in[1].bytes
                /\ log[k].out[1].bytes[Len(log[k].out[1].bytes)]
                      \notin {log[k].in[1].bytes[b] :
                                 b \in 1..Len(log[k].in[1].bytes)}
    /\ (result # <<>>) => result = log[Len(log)].out
    /\ (current_pdf # <<>>) =>
          current_pdf = (IF Len(log) >= 2 /\ log[Len(log)].ok
                         THEN log[Len(log)].out
                         ELSE IF Len(log) >= 3 THEN log[Len(log) - 1].out
                         ELSE <<pdf_bytes>>)

C17_BuffersNotMutated ==
    /\ []C17_Chain
    /\ [][args' = args]_vars

C17_Witness ==
    /\ pc = "Failed"
    /\ Len(log) >= 5
    /\ add_protocol_page

\* the text of the protocol page of a document that has one
ProtocolText(doc) ==
    LET p == CHOOSE k \in 1..Len(doc.pages) : doc.pages[k].kind = "protocol"
    IN  doc.pages[p].text[1]

\* C16: the protocol page lists the Signature-kind placements in list order,
\* numbered 1, 2, ... among themselves, each with page index + 1; the
\* Initials-kind placements give one line of their page indices + 1,
\* ascending and without duplicates, present exactly when there is one.
C16_ProtocolListing ==
    \A e \in Completed("protocol") :
        LET text == ProtocolText(log[e].out[1])
            lines == text.signature_lines
            fulls == {k \in 1..N : signatures[k].type # "initials"}
            inits == {k \in 1..N : signatures[k].type = "initials"}
        IN  /\ Len(lines) = Cardinality(fulls)
            /\ \A k \in fulls :
                  LET number == Cardinality({m \in fulls : m <= k})
                  IN  lines[number] = <<number, signatures[k].page + 1>>
            /\ (text.initials_line # <<>>) <=> (inits # {})
            /\ inits # {} =>
                  LET pages == text.initials_line[1]
                  IN  /\ \A a, b \in 1..Len(pages) : a < b => pages[a] < pages[b]
                      /\ {pages[a] : a \in 1..Len(pages)}
                            = {signatures[k].page + 1 : k \in inits}

C16_Witness ==
    /\ Completed("protocol") # {}
    /\ N = 2
    /\ signatures[1].type = "initials"
    /\ signatures[2].type = "full"
    /\ signatures[1].page # signatures[2].page

\* the mark drawn by a completed render call
MarkOf(r) ==
    LET marks == log[r].out[1].pages[log[r].arg[1] + 1].marks
    IN  marks[Len(marks)]

\* C13: for every placement the drawn box and the registered field have the
\* same width and height, namely the request's override when given and else
\* the kind default (Signature 150x50, Initials 50x35); the field box is
\* (x, y, x+width, y+height) on the page the mark is drawn on.
C13_BoxAndFieldInSync ==
    \A g \in Calls("sign") :
        LET r == g - 1
            sig == signatures[log[g].idx + 1]
            w == IF sig.width # <<>> THEN sig.width[1]
                 ELSE IF sig.type = "initials" THEN 50 ELSE 150
            h == IF sig.height # <<>> THEN sig.height[1]
                 ELSE IF sig.type = "initials" THEN 35 ELSE 50
            box == log[g].arg[3]
            rect == MarkOf(r).rect
        IN  /\ log[r].stage = "render" /\ log[r].idx = log[g].idx
            /\ rect[3] - rect[1] = w
            /\ rect[4] - rect[2] = h
            /\ rect[1] = sig.x
            /\ box = <<sig.x, sig.y, sig.x + w, sig.y + h>>
            /\ log[g].arg[2] = log[r].arg[1]
            /\ log[g].arg[2] = sig.page
            /\ log[g].ok =>
                  LET fs == log[g].out[1].fields
                  IN  fs[Len(fs)].box = box /\ fs[Len(fs)].page = sig.page

C13_Witness ==
    \E g \in Completed("sign") :
        /\ signatures[log[g].idx + 1].type = "initials"
        /\ signatures[log[g].idx + 1].width # <<>>
        /\ signatures[log[g].idx + 1].height = <<>>

\* C14: for every placement request, with or without a width/height
\* override, the preview (draw_signature_boxes) and the mark renderer
\* (render_signature_appearance) use the same width and height and the same
\* top edge page_height - y - height, so the two boxes coincide.
C14_PreviewMatchesMark ==
    \A r \in Completed("render") :
        (img_with_boxes # <<>> /\ log[r].arg[1] < original_count) =>
            LET boxes == img_with_boxes[1][log[r].arg[1] + 1]
                rect == MarkOf(r).rect
            IN  \E b \in 1..Len(boxes) :
                    /\ boxes[b].placement = log[r].idx
                    /\ boxes[b].x = rect[1]
                    /\ boxes[b].top = rect[2]
                    /\ boxes[b].width = rect[3] - rect[1]
                    /\ boxes[b].height = rect[4] - rect[2]

\* the starts of the whitespace-separated tokens of a text, and where the
\* token beginning at a ends
TokenStarts(text) ==
    {a \in 1..Len(text) :
        ~IsSpace(text[a]) /\ (a = 1 \/ IsSpace(text[a - 1]))}

TokenEnd(text, a) ==
    CHOOSE b \in a..Len(text) :
        /\ \A p \in a..b : ~IsSpace(text[p])
        /\ b = Len(text) \/ IsSpace(text[b + 1])

\* out is made of the uppercase of text[At[a]], for a in S in ascending
\* order, and is "?" when S is empty
InitialsFrom(out, text, S, At) ==
    IF S = {} THEN out = <<"?">>
    ELSE /\ Len(out) = Cardinality(S)
         /\ \A a \in S :
               LET ch == out[Cardinality({b \in S : b <= a})]
               IN  IsUpperChar(ch) /\ Lower(ch) = text[At[a]]

\* the name the sidebar computed initials for, and those initials
ShownName == cert_message[1].name

ShownInitials == cert_message[1].initials

\* C15 (as claimed): get_initials returns, in order, the uppercase first
\* alphabetic character of each whitespace-separated token left after
\* lowercasing and removing the titles, and "?" exactly when no token has an
\* alphabetic character.
C15_FirstAlphabeticOfEachToken ==
    cert_message # <<>> =>
        LET text == RemoveTitles(StrLower(ShownName), 1)
            S == {a \in TokenStarts(text) :
                     \E p \in a..TokenEnd(text, a) : IsAlpha(text[p])}
            FirstAlpha ==
                [a \in S |->
                    CHOOSE p \in a..TokenEnd(text, a) :
                        /\ IsAlpha(text[p])
                        /\ \A q \in a..(p - 1) : ~IsAlpha(text[q])]
        IN  InitialsFrom(ShownInitials, text, S, FirstAlpha)

\* C15 (amended): get_initials returns, in order, the uppercase first
\* character of each such token whose first character is alphabetic (a
\* token beginning with another character gives nothing), and "?" exactly
\* when there is no such token.
C15_FirstCharWhenAlphabetic ==
    cert_message # <<>> =>
        LET text == RemoveTitles(StrLower(ShownName), 1)
            S == {a \in TokenStarts(text) : IsAlpha(text[a])}
            First == [a \in S |-> a]
        IN  /\ InitialsFrom(ShownInitials, text, S, First)
            /\ (ShownInitials = <<"?">>) <=> (S = {})

C15_Witness ==
    /\ cert_message # <<>>
    /\ ShownInitials # <<"?">>
    /\ LET text == RemoveTitles(StrLower(ShownName), 1)
       IN  /\ text # StrLower(ShownName)
           /\ \E a \in TokenStarts(text) : ~IsAlpha(text[a])

\* whether a name holds no title token
Bare(name) == \A k \in 1..Len(titles) : ~Contains(StrLower(name), titles[k])

\* C19 (as claimed): after the title-removal pass no listed title is left in
\* the text, so a second pass changes nothing; and for a name without title
\* token the initials are the uppercase first letters of its words.
C19_StrippingComplete ==
    cert_message # <<>> =>
        LET once == RemoveTitles(StrLower(ShownName), 1)
        IN  /\ \A k \in 1..Len(titles) : ~Contains(once, titles[k])
            /\ RemoveTitles(once, 1) = once

\* C19 (amended): for a name that holds no title token the removal pass
\* changes nothing, however often it is applied, and the initials are the
\* uppercase first letters of its words (of those that begin with a
\* letter); a name that holds title tokens may keep one after the pass.
C19_IdempotentOnBareNames ==
    (cert_message # <<>> /\ Bare(ShownName)) =>
        LET text == StrLower(ShownName)
            S == {a \in TokenStarts(text) : IsAlpha(text[a])}
            First == [a \in S |-> a]
        IN  /\ RemoveTitles(text, 1) = text
            /\ RemoveTitles(RemoveTitles(text, 1), 1) = text
            /\ InitialsFrom(ShownInitials, text, S, First)

C19_Witness ==
    /\ cert_message # <<>>
    /\ Bare(ShownName)
    /\ Len(ShownInitials) = 3
    /\ \E k \in 1..Len(ShownName) : IsUpperChar(ShownName[k])

\* C20: the name "Unknown" is shown only when the certificate has no common
\* name, and the display-name helpers do not turn a credential failure
\* (an archive that does not decrypt) into a successful result.
C20_UnknownOnlyWithoutCommonName ==
    cert_message # <<>> =>
        /\ st_signer_name = <<Unknown>> => p12_bytes.cn = <<>>
        /\ ~p12_bytes.decrypts =>
              (cert_message[1].kind = "error" /\ st_signer_name = <<>>)

\* what sign_pdf_multiple returns for the arguments of invocation a when it
\* runs alone: <<>> when it raises, <<document>> otherwise (save_ok: whether
\* the save of the lock stage goes through)
RECURSIVE AloneLoop(_, _, _, _)
AloneLoop(doc, sgn, sigs, k) ==
    IF k >= Len(sigs) THEN Returned(doc)
    ELSE LET sig == sigs[k + 1]
             w == IF sig.width # <<>> THEN sig.width[1]
                  ELSE IF sig.type = "initials" THEN 50 ELSE 150
             h == IF sig.height # <<>> THEN sig.height[1]
                  ELSE IF sig.type = "initials" THEN 35 ELSE 50
             r == render_signature_appearance(
                      doc, sig.page, sig.x, sig.y, w, h,
                      get_signer_name_from_signer(sgn), sig.type, k)
         IN  IF ~r.ok THEN Raised
             ELSE LET g == sign_step(r.val[1], sgn, <<"Signature_", k + 1>>,
                                     <<sig.x, sig.y, sig.x + w, sig.y + h>>,
                                     sig.page, k)
                  IN  IF ~g.ok THEN Raised
                      ELSE AloneLoop(g.val[1], sgn, sigs, k + 1)

AloneResult(a, save_ok) ==
    IF Len(a.signatures) = 0 THEN <<>>
    ELSE LET l == load_signer_from_p12(a.p12_bytes)
         IN  IF ~l.ok THEN <<>>
             ELSE LET p == IF a.add_protocol_page
                           THEN create_protocol_page(a.pdf_bytes, a.signatures)
                           ELSE Returned(a.pdf_bytes)
                  IN  IF ~p.ok THEN <<>>
                      ELSE LET s == AloneLoop(p.val[1], l.val[1],
                                              a.signatures, 0)
                           IN  IF ~s.ok THEN <<>>
                               ELSE IF ~a.lock_after_signing THEN s.val
                               ELSE IF save_ok
                                    THEN lock_pdf_for_editing(s.val[1]).val
                                    ELSE <<>>

\* an ended invocation has the outcome it has when run alone
AsAlone(a) ==
    /\ a.pc = "Done" =>
          (a.result # <<>> /\ a.result = AloneResult(a, TRUE))
    /\ a.pc = "Failed" =>
          /\ a.result = <<>>
          /\ \/ AloneResult(a, TRUE) = <<>>
             \/ (a.lock_after_signing /\ a.log # <<>>
                   /\ a.log[Len(a.log)].stage = "lock")
    /\ \A k \in 1..Len(a.log) :
          a.log[k].stage = "sign" =>
              a.log[k].arg[1] = <<"Signature_", a.log[k].idx + 1>>

\* C18: under any interleaving of the stages of two invocations on
\* different inputs, each invocation returns, or fails, exactly as it does
\* when run alone, with its own field names Signature_1..Signature_N.
C18_InvocationsIndependent ==
    other # <<>> => (AsAlone(Running) /\ AsAlone(other[1]))

C18_Witness ==
    /\ other # <<>>
    /\ pc = "Render"
    /\ i = 1
    /\ other[1].pc = "Render"
    /\ other[1].i = 1
    /\ other[1].add_protocol_page

\* ------------------------------------------------------- the UI session
\* app.py main(): every user action runs the script once; what lasts from
\* one run to the next is st.session_state and the values of the widgets.
\* The two options keep their initial values (lock_pdf False, add_protocol
\* True) and the offset sliders theirs (0); selected_signature, current_page
\* and active_tab only steer what is displayed and are left out.

\* the most signatures a session places
MaxSessionSignatures == 2

\* app.py line 32
INITIALS_MARGIN == 20

\* the documents of a session: two pages, with or without a signature of
\* another tool
SessionDocs ==
    {d \in InputDocs : d.readable /\ Len(d.pages) = 2
                       /\ d.fields \in {<<>>, <<SignedField(<<"Approval_", 1>>)>>}}

\* the values the position sliders are moved to
SliderX == {100, 400}

SliderY == {50}

\* p.rect.width of a page (A4 and US Letter, in whole points)
PageWidth(page) == IF page.height = 842 THEN 595 ELSE 612

\* app.py lines 130-147
get_initials_position(corner, page_width, page_height, offset_x, offset_y) ==
    LET margin == INITIALS_MARGIN
        x == IF corner = "left" THEN margin + offset_x
             ELSE page_width - INITIALS_WIDTH - margin + offset_x
        y == margin + offset_y
    IN  <<x, y>>

\* app.py lines 261-292: the placement list the Sign button builds, the
\* signatures first, then one initials placement per selected page
all_signatures(pdf, ss) ==
    LET regular ==
            [k \in 1..Len(ss.signatures) |->
                [page |-> ss.signatures[k].page, x |-> ss.signatures[k].x,
                 y |-> ss.signatures[k].y, type |-> ss.signatures[k].type,
                 width |-> <<>>, height |-> <<>>]]
        Initials(page) ==
            LET p == pdf.pages[page + 1]
                pos == get_initials_position(ss.initials_corner,
                                             PageWidth(p), p.height,
                                             ss.initials_offset_x,
                                             ss.initials_offset_y)
            IN  [page |-> page, x |-> pos[1], y |-> pos[2],
                 type |-> "initials", width |-> <<>>, height |-> <<>>]
    IN  IF /\ Len(ss.initials_pages) > 0
           /\ \/ ~pdf.readable
              \/ \E k \in 1..Len(ss.initials_pages) :
                    ~PageExists(pdf, ss.initials_pages[k])
        THEN Raised
        ELSE Returned(regular \o [k \in 1..Len(ss.initials_pages) |->
                                     Initials(ss.initials_pages[k])])

\* app.py lines 259-309: what the handler of the Sign button leaves in
\* session_state.signed_pdf (<<>> for None)
SignHandler(pdf, p12, ss, lock_pdf, add_protocol, save_ok) ==
    LET a == all_signatures(pdf, ss)
    IN  IF ~a.ok THEN <<>>
        ELSE AloneResult([pdf_bytes |-> pdf, p12_bytes |-> p12,
                          signatures |-> a.val[1],
                          lock_after_signing |-> lock_pdf,
                          add_protocol_page |-> add_protocol], save_ok)

\* app.py lines 239-255
has_signatures(ss) ==
    LET sig_count == Cardinality({k \in 1..Len(ss.signatures) :
                                     ss.signatures[k].type # "initials"})
        init_count == Len(ss.initials_pages)
    IN  sig_count > 0 \/ init_count > 0

\* app.py lines 157-177
SessionInit ==
    /\ pdf_bytes = ConcDoc(2)
    /\ p12_bytes \in [decrypts : BOOLEAN, can_sign : {TRUE}, cn : {<<>>}]
    /\ signatures = <<>>
    /\ lock_after_signing = FALSE
    /\ add_protocol_page = TRUE
    /\ signer = <<>>
    /\ current_pdf = <<>>
    /\ i = 0
    /\ pc = "Session"
    /\ result = <<>>
    /\ log = <<>>
    /\ img_with_boxes = <<>>
    /\ st_signer_name = <<>>
    /\ cert_message = <<>>
    /\ other = <<>>
    /\ pdf_file \in {<<d>> : d \in SessionDocs}
    /\ session_state = <<[signatures |-> <<>>, signed_pdf |-> <<>>,
                          initials_corner |-> "right", initials_pages |-> <<>>,
                          initials_offset_x |-> 0, initials_offset_y |-> 0]>>

\* a session action leaves the invocation variables and the other UI state
SessionFrame ==
    UNCHANGED <<args, signer, current_pdf, i, pc, result, log, img_with_boxes,
                st_signer_name, cert_message, other>>

\* list.pop(idx)
Pop(seq, idx) ==
    [k \in 1..(Len(seq) - 1) |-> IF k <= idx THEN seq[k] ELSE seq[k + 1]]

\* app.py lines 188-192: another document is put into the uploader
UploadPdf ==
    /\ pc = "Session"
    /\ \E d \in SessionDocs :
          /\ <<d>> # pdf_file
          /\ pdf_file' = <<d>>
    /\ UNCHANGED session_state
    /\ SessionFrame

\* app.py lines 254-309: the Sign button, enabled by can_sign
SignPDF ==
    /\ pc = "Session"
    /\ pdf_file # <<>>
    /\ has_signatures(session_state[1])
    /\ session_state' =
          <<[session_state[1] EXCEPT !.signed_pdf =
                SignHandler(pdf_file[1], p12_bytes, session_state[1], FALSE,
                            TRUE, TRUE)]>>
    /\ UNCHANGED pdf_file
    /\ SessionFrame

\* app.py lines 355-364
AddSignature ==
    /\ pc = "Session"
    /\ Len(session_state[1].signatures) < MaxSessionSignatures
    /\ \E page_num_sig \in 0..(Len(pdf_file[1].pages) - 1) :
          LET new_sig == [page |-> page_num_sig, x |-> 400, y |-> 50,
                          type |-> "full"]
          IN  session_state' =
                 <<[session_state[1] EXCEPT !.signatures = Append(@, new_sig)]>>
    /\ UNCHANGED pdf_file
    /\ SessionFrame

\* app.py lines 367-372
RemoveAll ==
    /\ pc = "Session"
    /\ session_state' =
          <<[session_state[1] EXCEPT !.signatures =
                SelectSeq(@, LAMBDA sig : sig.type = "initials")]>>
    /\ UNCHANGED pdf_file
    /\ SessionFrame

\* app.py lines 431-451: a slider of signature global_idx is moved
MoveSignature ==
    /\ pc = "Session"
    /\ \E global_idx \in 0..(Len(session_state[1].signatures) - 1) :
       \E new_x \in SliderX, new_y \in SliderY :
          LET sig == session_state[1].signatures[global_idx + 1]
          IN  /\ new_x # sig.x \/ new_y # sig.y
              /\ session_state' =
                    <<[session_state[1] EXCEPT
                          !.signatures[global_idx + 1].x = new_x,
                          !.signatures[global_idx + 1].y = new_y]>>
    /\ UNCHANGED pdf_file
    /\ SessionFrame

\* app.py lines 453-456
RemoveSignature ==
    /\ pc = "Session"
    /\ \E global_idx \in 0..(Len(session_state[1].signatures) - 1) :
          session_state' =
             <<[session_state[1] EXCEPT !.signatures = Pop(@, global_idx)]>>
    /\ UNCHANGED pdf_file
    /\ SessionFrame

\* app.py lines 476-483
ChangeCorner ==
    /\ pc = "Session"
    /\ \E corner \in {"left", "right"} :
          /\ corner # session_state[1].initials_corner
          /\ session_state' =
                <<[session_state[1] EXCEPT !.initials_corner = corner]>>
    /\ UNCHANGED pdf_file
    /\ SessionFrame

\* app.py lines 506-508
SelectAllPages ==
    /\ pc = "Session"
    /\ session_state' =
          <<[session_state[1] EXCEPT !.initials_pages =
                [k \in 1..Len(pdf_file[1].pages) |-> k - 1]]>>
    /\ UNCHANGED pdf_file
    /\ SessionFrame

\* app.py lines 510-512
ClearSelection ==
    /\ pc = "Session"
    /\ session_state' = <<[session_state[1] EXCEPT !.initials_pages = <<>>]>>
    /\ UNCHANGED pdf_file
    /\ SessionFrame

\* app.py lines 515-524: a page is picked in, or dropped from, the
\* multiselect
SelectPages ==
    /\ pc = "Session"
    /\ \E page \in 0..(Len(pdf_file[1].pages) - 1) :
          LET chosen == session_state[1].initials_pages
              selected_pages ==
                  IF \E k \in 1..Len(chosen) : chosen[k] = page
                  THEN SelectSeq(chosen, LAMBDA q : q # page)
                  ELSE Append(chosen, page)
          IN  session_state' =
                 <<[session_state[1] EXCEPT !.initials_pages = selected_pages]>>
    /\ UNCHANGED pdf_file
    /\ SessionFrame

SessionNext ==
    \/ UploadPdf
    \/ SignPDF
    \/ AddSignature
    \/ RemoveAll
    \/ MoveSignature
    \/ RemoveSignature
    \/ ChangeCorner
    \/ SelectAllPages
    \/ ClearSelection
    \/ SelectPages

SpecSession == SessionInit /\ [][SessionNext]_vars

\* the signed document the Sign button makes of the session as it is now
SignedNow ==
    SignHandler(pdf_file[1], p12_bytes, session_state[1], FALSE, TRUE, TRUE)

\* C21: whenever the session offers a signed PDF for download
\* (session_state.signed_pdf is not None), it is the result of signing the
\* document in the uploader with the placement list as it is now (the
\* signatures plus the initials pages); a result of an earlier placement
\* list is never offered.
C21_OfferedIsCurrent ==
    (session_state # <<>> /\ session_state[1].signed_pdf # <<>>) =>
        session_state[1].signed_pdf = SignedNow

====
